---- MODULE Spec2Model ----
(***************************************************************************)
(* A model of the vector engine: the in-memory HNSW builder                *)
(* (src/src/core/hnsw.rs), its serializer, the mmap loader and the         *)
(* two-stage searcher (src/src/storage/mmap.rs).                           *)
(*                                                                         *)
(* Node IDs are 0-based as in the code; the node with ID i is nodes[i+1]   *)
(* and layer l of a node is connections[l+1].                              *)
(***************************************************************************)
EXTENDS Integers, Sequences, FiniteSets, TLC

\* ------------------------------------------------------------------ bounds

\* The largest number of insert calls of one run.
MaxNodes == 3

\* The largest k of a search call.
MaxK == 3

\* Arguments of HNSW::new(layers, ef_construction, m, m0).
LayerChoices == {1, 2}
EfChoices == {1, 2, 3}
MChoices == {1, 2}
M0Choices == {1, 2}

\* The vectors handed to insert and search, all of one dimension.
Vectors == {<<0, 0>>, <<1, 0>>, <<0, 1>>, <<2, 2>>}

\* Option<usize>::None of entry_point.
NoneId == -1

\* The nodes of a builder that is saved.
MaxFileNodes == 2

\* The builder that is saved: layers, ef_construction, M, M0.
FileConfig == <<1, 2, 2, 2>>

\* The vectors of a builder that is saved.
FileVectors == {<<1, 0>>}

\* The low halves of the obfuscation keys rand::random() draws.
Keys == {<<0, 0, 0, 0>>, <<165, 1, 255, 128>>}

\* The searches of one thread.
MaxVersion == 2

\* The threads that search, and the one that searches alone.
MaxThreads == 2
Threads == 1..MaxThreads
MainThread == 1

\* CURRENT_VERSION is a u64: the model counts in VersionBits bits.
VersionBits == 2
VersionModulus == 2 ^ VersionBits

\* The builder that is written as an index: layers, ef_construction, M, M0.
IndexConfig == <<2, 2, 2, 2>>

\* The vectors of a builder that is written as an index.
IndexVectors == {<<0, 0>>, <<0, 1>>, <<2, 2>>}

\* The ef_search of a two-stage search.
EfSearches == {1, 3}

\* The queries of a two-stage search.
IndexQueries == {<<1, 0>>, <<2, 2>>}

\* The largest number of insert calls of a builder whose zoom is looked at.
MaxZoomNodes == 4

\* That builder: layers, ef_construction, M, M0.
ZoomConfig == <<2, 1, 2, 2>>

\* The vectors it is fed and the queries it is asked.
ZoomVectors == {<<0, 0>>, <<1, 0>>, <<0, 1>>, <<0, 2>>}
ZoomQueries == {<<1, 3>>}

\* The values a byte of the file is overwritten with.
ByteValues == 0..255

\* size_of::<Header>() and size_of::<OnDiskNode>().
HeaderSize == 256
OnDiskNodeSize == 8

\* A stored value is held in units of 1 / Scale.
Scale == 10000

VARIABLES
    layers,           \* HNSW.layers
    ef_construction,  \* HNSW.ef_construction
    m,                \* HNSW.m
    m0,               \* HNSW.m0
    nodes,            \* HNSW.nodes
    entry_point,      \* HNSW.entry_point (NoneId for None)
    pc,               \* position of the running call, "idle" between calls
    ins,              \* the locals of the running call (insert, or a traversal)
    calls,            \* number of insert calls made so far
    ret,              \* what the last call has returned, none while insert runs
    file,             \* the file on disk: none, or its header and its payload
    loaded,           \* what the last load of the file has returned
    stages,           \* the stages of load that have run, in their order
    version,          \* CURRENT_VERSION of each thread
    visited           \* VISITED_VERSIONS of each thread

builderVars == <<layers, ef_construction, m, m0, nodes, entry_point, pc, ins, calls, ret>>

fileVars == <<file, loaded, stages>>

threadVars == <<version, visited>>

vars == <<builderVars, fileVars, threadVars>>

\* No file yet.
NoFile == [kind |-> "none"]

InitFile ==
    /\ file = NoFile
    /\ loaded = "none"
    /\ stages = <<>>

\* The thread_local! statics of search_graph_u8 before the first search.
InitThread ==
    /\ version = [t \in Threads |-> 0]
    /\ visited = [t \in Threads |-> <<>>]

\* ------------------------------------------------------------- sequences

Range(s) == {s[i] : i \in 1..Len(s)}

Last(s) == s[Len(s)]

\* Iterator::take(n).
Take(s, n) == SubSeq(s, 1, IF n < Len(s) THEN n ELSE Len(s))

Min(a, b) == IF a < b THEN a ELSE b

Max(a, b) == IF a > b THEN a ELSE b

\* --------------------------------------------------------------- distance

RECURSIVE SumSq(_, _, _)
SumSq(a, b, i) ==
    IF i > Len(a) THEN 0
    ELSE (a[i] - b[i]) * (a[i] - b[i]) + SumSq(a, b, i + 1)

\* euclidean_distance is sqrt(sum of squares).  The distances are only ever
\* compared with each other, and sqrt is strictly increasing (and exact enough
\* in f32 to keep the small sums used here apart), so the model keeps the sum
\* of squares.
euclidean_distance(a, b) == SumSq(a, b, 1)

\* ------------------------------------------------------------ BinaryHeap

\* Reverse(Candidate) <= Reverse(Candidate): Candidate compares by distance
\* reversed, and Reverse reverses it once more.
ReverseCandidateLe(a, b) == a.distance <= b.distance

\* Candidate <= Candidate: partial_cmp compares other.distance with
\* self.distance.
CandidateLe(a, b) == b.distance <= a.distance

\* The order of a BinaryHeap<Reverse<Candidate>> (reversed) and of a
\* BinaryHeap<Candidate>.
HeapLe(reversed, a, b) ==
    IF reversed THEN ReverseCandidateLe(a, b) ELSE CandidateLe(a, b)

\* BinaryHeap::sift_up; positions are 0-based.
RECURSIVE HeapSiftUp(_, _, _, _, _)
HeapSiftUp(reversed, data, start, pos, elem) ==
    IF pos > start
    THEN LET parent == (pos - 1) \div 2 IN
         IF HeapLe(reversed, elem, data[parent + 1])
         THEN [data EXCEPT ![pos + 1] = elem]
         ELSE HeapSiftUp(reversed, [data EXCEPT ![pos + 1] = data[parent + 1]],
                         start, parent, elem)
    ELSE [data EXCEPT ![pos + 1] = elem]

\* BinaryHeap::push.
HeapPush(reversed, data, item) ==
    HeapSiftUp(reversed, Append(data, item), 0, Len(data), item)

\* The loop of BinaryHeap::sift_down_to_bottom: the hole moves to the greater
\* child until it has at most one child; returns the data and the hole.
RECURSIVE HeapSiftDown(_, _, _, _)
HeapSiftDown(reversed, data, pos, end) ==
    LET child == 2 * pos + 1 IN
    IF child <= Max(end - 2, 0)
    THEN LET c == IF HeapLe(reversed, data[child + 1], data[child + 2])
                  THEN child + 1 ELSE child
         IN HeapSiftDown(reversed, [data EXCEPT ![pos + 1] = data[c + 1]], c, end)
    ELSE IF child = end - 1
         THEN [data |-> [data EXCEPT ![pos + 1] = data[child + 1]], pos |-> child]
         ELSE [data |-> data, pos |-> pos]

\* BinaryHeap::pop: the popped item and the heap left.
HeapPop(reversed, data) ==
    LET item == Last(data)
        rest == SubSeq(data, 1, Len(data) - 1)
    IN IF rest = <<>>
       THEN [item |-> item, data |-> rest]
       ELSE LET down == HeapSiftDown(reversed, rest, 0, Len(rest))
            IN [item |-> rest[1],
                data |-> HeapSiftUp(reversed, down.data, 0, down.pos, item)]

\* BinaryHeap::peek: the greatest item.
HeapPeek(data) == data[1]

\* ------------------------------------------------------------ search_layer

Stored(g, id) == id >= 0 /\ id < Len(g)

HasLayer(g, id, level) == Stored(g, id) /\ level <= g[id + 1].layer_max

\* `In` of a value that is computed once, however often In reads it.
Let(value, In(_)) == CHOOSE out \in {In(v) : v \in {value}} : TRUE

\* A push that leaves out the sort.
PushUnsorted(w, c) == Append(w, c)

\* w.push(candidate); w.sort_by(distance): the sort is stable, so the new
\* candidate lands behind every candidate that is not farther than it.
RECURSIVE SortedInsert(_, _)
SortedInsert(w, c) ==
    IF w = <<>> THEN <<c>>
    ELSE IF Last(w).distance <= c.distance THEN Append(w, c)
    ELSE Append(SortedInsert(SubSeq(w, 1, Len(w) - 1), c), Last(w))

\* The body of Visit for a neighbour that counts as not visited yet.  evals
\* lists the nodes in the order their distance was computed, pushes in the
\* order they were pushed on candidates.
VisitNew(g, query, ef, st, neighbor_id) ==
    IF ~Stored(g, neighbor_id) THEN [st EXCEPT !.ok = FALSE]
    ELSE LET neighbor_dist == euclidean_distance(query, g[neighbor_id + 1].vector)
             candidate == [distance |-> neighbor_dist, node_id |-> neighbor_id]
             seen == [st EXCEPT !.visited = @ \cup {neighbor_id},
                                !.evals = Append(@, neighbor_id)]
         IN IF Len(st.w) < ef \/ neighbor_dist < Last(st.w).distance
            THEN LET pushed == SortedInsert(st.w, candidate) IN
                 [seen EXCEPT !.candidates = HeapPush(TRUE, @, candidate),
                              !.pushes = Append(@, neighbor_id),
                              !.w = IF Len(pushed) > ef
                                    THEN SubSeq(pushed, 1, Len(pushed) - 1)
                                    ELSE pushed]
            ELSE seen

\* A beam search that does not consult the visited set.
VisitUnchecked(g, query, ef, st, neighbor_id) == VisitNew(g, query, ef, st, neighbor_id)

\* The if of lines 186-199 for one neighbour of the popped candidate.
Visit(g, query, ef, st, neighbor_id) ==
    IF neighbor_id \in st.visited THEN st
    ELSE VisitNew(g, query, ef, st, neighbor_id)

\* The for loop of line 185 over the neighbour list.
RECURSIVE VisitAll(_, _, _, _, _, _)
VisitAll(g, query, ef, st, list, i) ==
    IF i > Len(list) \/ ~st.ok THEN st
    ELSE VisitAll(g, query, ef, Visit(g, query, ef, st, list[i]), list, i + 1)

\* Lines 176-183: the while loop runs another pass: a candidate is popped and
\* the break is not taken.
SearchGoesOn(ef, st) ==
    /\ st.ok
    /\ st.candidates # <<>>
    /\ \/ st.w = <<>>
       \/ ~(/\ HeapPop(TRUE, st.candidates).item.distance > Last(st.w).distance
            /\ Len(st.w) >= ef)

\* Lines 177-200: one pass of the while loop that does not break.
SearchPass(g, query, ef, level, st) ==
    IF st.w = <<>> THEN [st EXCEPT !.ok = FALSE]
    ELSE LET popped == HeapPop(TRUE, st.candidates)
             c == popped.item
         IN IF ~HasLayer(g, c.node_id, level) THEN [st EXCEPT !.ok = FALSE]
            ELSE VisitAll(g, query, ef, [st EXCEPT !.candidates = popped.data],
                          g[c.node_id + 1].connections[level + 1], 1)

\* The while loop of lines 176-201.
RECURSIVE SearchLoop(_, _, _, _, _)
SearchLoop(g, query, ef, level, st) ==
    IF SearchGoesOn(ef, st)
    THEN Let(SearchPass(g, query, ef, level, st),
             LAMBDA next : SearchLoop(g, query, ef, level, next))
    ELSE st

\* A beam search that starts with no node marked.
FirstVisitedNone(entry) == {}

\* Line 169: visited.insert(entry).
FirstVisited(entry) == {entry}

\* Lines 155-174: the locals of search_layer before the while loop.
SearchStart(g, query, entry) ==
    LET dist == euclidean_distance(query, g[entry + 1].vector)
        first == [distance |-> dist, node_id |-> entry]
    IN [ok |-> TRUE, visited |-> FirstVisited(entry),
        candidates |-> HeapPush(TRUE, <<>>, first), w |-> <<first>>,
        evals |-> <<entry>>, pushes |-> <<entry>>]

\* HNSW::search_layer.  ok is FALSE when the call panics: an index past the
\* end of the node list or of a node's layer list, or unwrap on an empty w.
\* w holds the candidates returned, as records [distance, node_id].
search_layer(g, query, entry, ef, level) ==
    IF ~Stored(g, entry) THEN [ok |-> FALSE, w |-> <<>>]
    ELSE LET st == SearchLoop(g, query, ef, level, SearchStart(g, query, entry))
         IN [ok |-> st.ok, w |-> st.w]

\* The (id, distance) pairs search_layer returns.
Pairs(w) == [i \in 1..Len(w) |-> <<w[i].node_id, w[i].distance>>]

\* ------------------------------------------------------- prune_connections

\* candidates.sort_by(distance) of pairs [distance, node_id]: a stable sort.
RECURSIVE SortByDistance(_, _)
SortByDistance(list, i) ==
    IF i = 0 THEN <<>>
    ELSE SortedInsert(SortByDistance(list, i - 1), list[i])

\* HNSW::prune_connections.  ok is FALSE when the call panics: the distance
\* of line 220 indexes self.nodes with every ID of the list.
prune_connections(g, node_id, level, max_links) ==
    IF ~HasLayer(g, node_id, level) THEN [ok |-> FALSE, nodes |-> g]
    ELSE LET connections == g[node_id + 1].connections[level + 1] IN
         IF Len(connections) <= max_links THEN [ok |-> TRUE, nodes |-> g]
         ELSE IF \E i \in 1..Len(connections) : ~Stored(g, connections[i])
         THEN [ok |-> FALSE, nodes |-> g]
         ELSE LET node_vector == g[node_id + 1].vector
                  candidates ==
                      [i \in 1..Len(connections) |->
                          [distance |-> euclidean_distance(
                                            node_vector, g[connections[i] + 1].vector),
                           node_id |-> connections[i]]]
                  sorted == SortByDistance(candidates, Len(candidates))
                  kept == Take(sorted, max_links)
              IN [ok |-> TRUE,
                  nodes |-> [g EXCEPT ![node_id + 1].connections[level + 1] =
                                [i \in 1..Len(kept) |-> kept[i].node_id]]]

\* ------------------------------------------------------------------ insert

\* A build whose cap is twice the configured one.
MLevelDoubled(level) == 2 * (IF level = 0 THEN m0 ELSE m)

\* let m_level = if level == 0 { self.m0 } else { self.m }.
MLevel(level) == IF level = 0 THEN m0 ELSE m

\* The zoom of lines 88-94: an ef = 1 search per level from `level` down to
\* `stop`, each starting where the level above ended.
RECURSIVE Zoom(_, _, _, _, _)
Zoom(g, query, curr_obj, level, stop) ==
    IF level < stop THEN [ok |-> TRUE, curr_obj |-> curr_obj]
    ELSE LET found == search_layer(g, query, curr_obj, 1, level) IN
         IF ~found.ok \/ found.w = <<>> THEN [ok |-> FALSE, curr_obj |-> curr_obj]
         ELSE Zoom(g, query, found.w[1].node_id, level - 1, stop)

NoIns == [id |-> NoneId, vector |-> <<>>, layer_max |-> 0, connections |-> <<>>,
          max_layer_global |-> 0, level |-> 0, curr_obj |-> NoneId,
          candidates |-> <<>>, pending |-> <<>>]

NoRet == [kind |-> "none"]

\* A build that records the node one layer higher than its lists reach.
NewNodeOneLayerHigher(id, vector, layer_max, connections) ==
    [id |-> id, vector |-> vector, layer_max |-> layer_max + 1,
     connections |-> connections]

\* Lines 62-68 and 124-128: the node as insert stores it.
NewNode(id, vector, layer_max, connections) ==
    [id |-> id, vector |-> vector, layer_max |-> layer_max,
     connections |-> connections]

\* A build that selects the neighbour and forgets the back-link.
BackLinkDropped(list, id) == list

\* Line 110: self.nodes[neighbor_id].connections[level].push(id).
BackLink(list, id) == Append(list, id)

\* A build that never moves the entry point to a higher node.
NextEntryPointKept(entry, layer_max, max_layer_global, id) == entry

\* Lines 120-123: the global entry point after the node id was linked.
NextEntryPoint(entry, layer_max, max_layer_global, id) ==
    IF layer_max > max_layer_global THEN id ELSE entry

\* The builder while one insert call runs: the graph, the entry point, the
\* position pc of the call and its locals ins.  The steps of insert below map
\* such a record to the next one.
Builder == [pc |-> pc, nodes |-> nodes, entry_point |-> entry_point, ins |-> ins]

\* insert, lines 60-97 and 124-129.  Into the empty graph the node is stored
\* as the entry point and the call is over; otherwise the node is built and the
\* entry point is zoomed down to the first layer the node is linked at.
InsertBegin(b, vector, layer_max) ==
    LET id == Len(b.nodes)
        fresh == [l \in 1..(layer_max + 1) |-> <<>>]
    IN IF b.entry_point = NoneId
       THEN [b EXCEPT !.entry_point = id,
                      !.nodes = Append(@, NewNode(id, vector, layer_max, fresh))]
       ELSE IF ~Stored(b.nodes, b.entry_point) THEN [b EXCEPT !.pc = "panicked"]
       ELSE LET max_layer_global == b.nodes[b.entry_point + 1].layer_max
                zoom == IF layer_max < max_layer_global
                        THEN Zoom(b.nodes, vector, b.entry_point,
                                  max_layer_global, layer_max + 1)
                        ELSE [ok |-> TRUE, curr_obj |-> b.entry_point]
            IN [b EXCEPT !.pc = IF zoom.ok THEN "search" ELSE "panicked",
                         !.ins = [id |-> id, vector |-> vector,
                                  layer_max |-> layer_max,
                                  connections |-> fresh,
                                  max_layer_global |-> max_layer_global,
                                  level |-> Min(layer_max, max_layer_global),
                                  curr_obj |-> zoom.curr_obj,
                                  candidates |-> <<>>, pending |-> <<>>]]

\* Lines 99-108 for the layer ins.level: the beam search, the choice of the
\* top M_l candidates and their assignment to the new node's list.
InsertSearchStep(b) ==
    LET found == search_layer(b.nodes, b.ins.vector, b.ins.curr_obj,
                              ef_construction, b.ins.level)
        neighbors == Take([i \in 1..Len(found.w) |-> found.w[i].node_id],
                          MLevel(b.ins.level))
    IN IF found.ok /\ found.w # <<>>
       THEN [b EXCEPT !.pc = "push",
                      !.ins.candidates = Pairs(found.w),
                      !.ins.connections[b.ins.level + 1] = neighbors,
                      !.ins.pending = neighbors]
       ELSE [b EXCEPT !.pc = "panicked"]

\* Line 110: the back-link to the new node is appended to the list of the
\* next selected neighbour.
InsertPushStep(b) ==
    LET neighbor_id == Head(b.ins.pending) IN
    IF HasLayer(b.nodes, neighbor_id, b.ins.level)
    THEN [b EXCEPT !.pc = "prune",
                   !.nodes[neighbor_id + 1].connections[b.ins.level + 1] =
                       BackLink(@, b.ins.id)]
    ELSE [b EXCEPT !.pc = "panicked"]

\* Lines 112-113 for that neighbour, and line 117 after the last neighbour of
\* the layer.
InsertPruneStep(b) ==
    LET neighbor_id == Head(b.ins.pending)
        pruned == prune_connections(b.nodes, neighbor_id, b.ins.level,
                                    MLevel(b.ins.level))
        rest == Tail(b.ins.pending)
    IN IF ~pruned.ok THEN [b EXCEPT !.pc = "panicked"]
       ELSE IF rest # <<>>
       THEN [b EXCEPT !.pc = "push", !.nodes = pruned.nodes, !.ins.pending = rest]
       ELSE [b EXCEPT !.pc = IF b.ins.level = 0 THEN "finish" ELSE "search",
                      !.nodes = pruned.nodes,
                      !.ins.pending = rest,
                      !.ins.curr_obj = b.ins.candidates[1][1],
                      !.ins.level = IF b.ins.level = 0 THEN 0 ELSE @ - 1]

\* Lines 120-129: the entry point moves to a higher node and the node is
\* stored.
InsertFinishStep(b) ==
    [b EXCEPT !.pc = "idle",
              !.entry_point = NextEntryPoint(@, b.ins.layer_max,
                                             b.ins.max_layer_global, b.ins.id),
              !.nodes = Append(@, NewNode(b.ins.id, b.ins.vector, b.ins.layer_max,
                                          b.ins.connections)),
              !.ins = NoIns]

\* The steps of one insert call from its position to its end: the call has
\* returned (pc = "idle") or panicked.
RECURSIVE InsertRun(_)
InsertRun(b) ==
    IF b.pc = "search" THEN InsertRun(InsertSearchStep(b))
    ELSE IF b.pc = "push" THEN InsertRun(InsertPushStep(b))
    ELSE IF b.pc = "prune" THEN InsertRun(InsertPruneStep(b))
    ELSE IF b.pc = "finish" THEN InsertRun(InsertFinishStep(b))
    ELSE b

\* HNSW::insert as one call.
insert(b, vector, layer_max) == InsertRun(InsertBegin(b, vector, layer_max))

\* ----------------------------------------------------------------- builder

\* HNSW::new.
InitBuilder ==
    /\ layers \in LayerChoices
    /\ ef_construction \in EfChoices
    /\ m \in MChoices
    /\ m0 \in M0Choices
    /\ nodes = <<>>
    /\ entry_point = NoneId
    /\ pc = "idle"
    /\ ins = NoIns
    /\ calls = 0
    /\ ret = NoRet

Config == <<layers, ef_construction, m, m0>>

\* The levels random_level can return: 0 .. layers - 1.
Levels == 0..(layers - 1)

\* The builder variables take the values of the record b.
BecomeBuilder(b) ==
    /\ pc' = b.pc
    /\ nodes' = b.nodes
    /\ entry_point' = b.entry_point
    /\ ins' = b.ins

\* What insert returns: the ID of line 129.
InsertRet(b) == [kind |-> "insert", id |-> Len(b.nodes) - 1]

\* insert into the empty graph.
InsertFirst(vector, layer_max) ==
    /\ pc = "idle"
    /\ calls < MaxNodes
    /\ entry_point = NoneId
    /\ LET b == InsertBegin(Builder, vector, layer_max) IN
       /\ BecomeBuilder(b)
       /\ ret' = InsertRet(b)
    /\ calls' = calls + 1
    /\ UNCHANGED <<Config, fileVars, threadVars>>

\* insert into a non-empty graph, up to the zoom.
InsertZoom(vector, layer_max) ==
    /\ pc = "idle"
    /\ calls < MaxNodes
    /\ entry_point # NoneId
    /\ BecomeBuilder(InsertBegin(Builder, vector, layer_max))
    /\ calls' = calls + 1
    /\ ret' = NoRet
    /\ UNCHANGED <<Config, fileVars, threadVars>>

InsertSearch ==
    /\ pc = "search"
    /\ BecomeBuilder(InsertSearchStep(Builder))
    /\ UNCHANGED <<Config, calls, ret, fileVars, threadVars>>

InsertPush ==
    /\ pc = "push"
    /\ BecomeBuilder(InsertPushStep(Builder))
    /\ UNCHANGED <<Config, calls, ret, fileVars, threadVars>>

InsertPrune ==
    /\ pc = "prune"
    /\ BecomeBuilder(InsertPruneStep(Builder))
    /\ UNCHANGED <<Config, calls, ret, fileVars, threadVars>>

InsertFinish ==
    /\ pc = "finish"
    /\ LET b == InsertFinishStep(Builder) IN
       /\ BecomeBuilder(b)
       /\ ret' = InsertRet(b)
    /\ UNCHANGED <<Config, calls, fileVars, threadVars>>

\* ------------------------------------------------------------------ search

\* HNSW::search: ok is FALSE when the call panics.
search(g, entry, ef_c, query, k) ==
    IF entry = NoneId THEN [ok |-> TRUE, list |-> <<>>, zoomed |-> NoneId]
    ELSE IF ~Stored(g, entry) THEN [ok |-> FALSE, list |-> <<>>, zoomed |-> NoneId]
    ELSE LET zoom == Zoom(g, query, entry, g[entry + 1].layer_max, 1)
             found == IF zoom.ok
                      THEN search_layer(g, query, zoom.curr_obj, Max(k, ef_c), 0)
                      ELSE [ok |-> FALSE, w |-> <<>>]
         IN [ok |-> found.ok, list |-> Take(Pairs(found.w), k),
             zoomed |-> zoom.curr_obj]

\* A search call between two insert calls.  search takes &self and changes
\* nothing, so a second search on the same graph tells nothing the first does
\* not: one is recorded per graph state.
Search(query, k) ==
    /\ pc = "idle"
    /\ ret.kind # "search"
    /\ LET found == search(nodes, entry_point, ef_construction, query, k) IN
       ret' = [kind |-> "search", query |-> query, k |-> k,
               ok |-> found.ok, list |-> found.list, zoomed |-> found.zoomed]
    /\ UNCHANGED <<Config, nodes, entry_point, pc, ins, calls, fileVars, threadVars>>

\* ------------------------------------------------------------------- bytes

\* Bitwise exclusive or of two naturals.
RECURSIVE BitXor(_, _)
BitXor(a, b) ==
    IF a = 0 THEN b
    ELSE IF b = 0 THEN a
    ELSE ((a + b) % 2) + 2 * BitXor(a \div 2, b \div 2)

\* The exclusive or of two bytes.
Xor8 == [a \in 0..255 |-> [b \in 0..255 |-> BitXor(a, b)]]

\* u32::to_le_bytes.
LE32(n) == <<n % 256, (n \div 256) % 256, (n \div 65536) % 256, n \div 16777216>>

\* f32::to_bits followed by to_le_bytes, for the values the model stores; a
\* value is held in units of 1 / Scale.
F32Bytes(x) ==
    CASE x = 0 -> <<0, 0, 0, 0>>
      [] x = Scale -> <<0, 0, 128, 63>>
      [] x = 2 * Scale -> <<0, 0, 0, 64>>
      [] x = 7071 -> <<243, 4, 53, 63>>

\* bits ^ key_32, byte by byte.
Scramble(bytes, key_32) == [i \in 1..4 |-> Xor8[bytes[i]][key_32[i]]]

RECURSIVE Flatten(_)
Flatten(ss) == IF ss = <<>> THEN <<>> ELSE Head(ss) \o Flatten(Tail(ss))

\* ------------------------------------------------------------------- CRC-32
\* crc32fast::Hasher is the IEEE CRC-32: reflected polynomial EDB88320, state
\* and result inverted.  A 32-bit word is held as its four bytes, the lowest
\* first, which is also how to_le_bytes writes it.

\* One bit of the division on the halves <<high, low>> of a word: shift right,
\* and subtract the polynomial when a one fell out.
CrcShift(c) ==
    LET sh == <<c[1] \div 2, (c[2] \div 2) + 32768 * (c[1] % 2)>> IN
    IF c[2] % 2 = 1 THEN <<BitXor(sh[1], 60856), BitXor(sh[2], 33568)>> ELSE sh

RECURSIVE CrcBits(_, _)
CrcBits(c, n) == IF n = 0 THEN c ELSE CrcBits(CrcShift(c), n - 1)

\* The table of the byte-wise algorithm: eight bits of division of each byte.
CrcTable ==
    [i \in 0..255 |->
        LET c == CrcBits(<<0, i>>, 8) IN
        <<c[2] % 256, c[2] \div 256, c[1] % 256, c[1] \div 256>>]

\* Hasher::update for one byte: crc = table[(crc ^ byte) & 0xFF] ^ (crc >> 8).
CrcByte(c, byte) ==
    LET t == CrcTable[Xor8[c[1]][byte]] IN
    <<Xor8[t[1]][c[2]], Xor8[t[2]][c[3]], Xor8[t[3]][c[4]], t[4]>>

\* The states of the hasher: the 32-bit words.
Word32 == [1..4 -> 0..255]

\* Hasher::update for the bytes lo..hi of a slice: the first half of them,
\* and from the state they leave, the second half.
RECURSIVE CrcUpdate(_, _, _, _)
CrcUpdate(c, bytes, lo, hi) ==
    IF lo > hi THEN c
    ELSE IF lo = hi THEN CrcByte(c, bytes[lo])
    ELSE LET mid == (lo + hi) \div 2
             left == CrcUpdate(c, bytes, lo, mid)
         IN IF left \in Word32 THEN CrcUpdate(left, bytes, mid + 1, hi) ELSE left

\* Hasher::new, update, finalize.
crc32(bytes) ==
    LET c == CrcUpdate(<<255, 255, 255, 255>>, bytes, 1, Len(bytes)) IN
    [i \in 1..4 |-> 255 - c[i]]

\* -------------------------------------------------------------------- save

\* The words of one node in the connection arena: [count, n1, n2, ...] for
\* each of its levels.
RECURSIVE ConnectionWords(_, _)
ConnectionWords(node, level) ==
    IF level > node.layer_max THEN <<>>
    ELSE <<Len(node.connections[level + 1])>> \o node.connections[level + 1]
         \o ConnectionWords(node, level + 1)

\* connections_data of lines 247-265, and the byte offset of each node in it.
ConnectionsData(g) == Flatten([i \in 1..Len(g) |-> ConnectionWords(g[i], 0)])

\* A save that starts the blocks of every node at the start of the arena.
FirstBlockOffset(g, i) == 0

\* node_connection_offsets[i] of line 255.
NodeConnectionOffset(g, i) == 4 * Len(ConnectionsData(Take(g, i - 1)))

\* bytes_of(&on_disk_node), lines 300-305.
OnDiskNodeBytes(g, i) ==
    <<g[i].layer_max + 1, 0, 0, 0>> \o LE32(NodeConnectionOffset(g, i))

\* Lines 311-320: the vectors, each value scrambled with the low half of the
\* key.
VectorBytes(vector, key_32) ==
    Flatten([j \in 1..Len(vector) |-> Scramble(F32Bytes(vector[j] * Scale), key_32)])

\* Everything save writes after the header, which is what it feeds the hasher.
SavedPayload(g, key_32) ==
    Flatten([i \in 1..Len(g) |-> OnDiskNodeBytes(g, i)])
    \o Flatten([i \in 1..Len(g) |-> VectorBytes(g[i].vector, key_32)])
    \o Flatten([i \in 1..Len(ConnectionsData(g)) |-> LE32(ConnectionsData(g)[i])])

\* A save that names node 0 as the entry point whatever the builder's is.
EntryPointZero(entry) == 0

\* Line 280: self.entry_point.unwrap_or(0).
EntryPointId(entry) == IF entry = NoneId THEN 0 ELSE entry

\* HNSW::save: the file it leaves behind.  The header is held field by field,
\* the obfuscation key by its low half.
save(g, entry, key_32) ==
    LET num_nodes == Len(g)
        dim == IF num_nodes > 0 THEN Len(g[1].vector) ELSE 0
        nodes_offset == HeaderSize
        vectors_offset == nodes_offset + num_nodes * OnDiskNodeSize
        connections_offset == vectors_offset + num_nodes * dim * 4
        first == EntryPointId(entry)
        payload == SavedPayload(g, key_32)
    IN [header |-> [magic |-> "HNSWANN1",
                    version |-> 1,
                    dimension |-> dim,
                    num_elements |-> num_nodes,
                    entry_point_id |-> first,
                    max_layer |-> IF Stored(g, first) THEN g[first + 1].layer_max ELSE 0,
                    ef_construction |-> ef_construction,
                    m |-> m,
                    m0 |-> m0,
                    nodes_offset |-> nodes_offset,
                    vectors_offset |-> vectors_offset,
                    connections_offset |-> connections_offset,
                    obfuscation_key |-> key_32,
                    checksum |-> crc32(payload)],
        payload |-> payload]

\* -------------------------------------------------------------------- load

\* mmap.len().  A file shorter than a header is held by its length alone.
FileLen(f) == IF f.kind = "short" THEN f.len ELSE HeaderSize + Len(f.payload)

\* A loader that does not compare the checksum.
ChecksumIgnored(calculated, checksum) == FALSE

\* Line 52: calculated != header.checksum.
ChecksumDiffers(calculated, checksum) == calculated # checksum

\* Line 28: the file is shorter than a header.
TooShort(f) == FileLen(f) < HeaderSize

\* Line 34: the magic is not the one of the format.
BadMagic(f) == f.header.magic # "HNSWANN1"

\* A loader that takes every offset for one inside the file.
OffsetAccepted(offset, total_size) == FALSE

\* Lines 39-41: an offset is not below the length of the file.
OffsetPastEnd(offset, total_size) == offset >= total_size

\* Lines 39-41: one of the three offsets load looks at is past the end.
OffsetsPastEnd(f) ==
    \/ OffsetPastEnd(f.header.nodes_offset, FileLen(f))
    \/ OffsetPastEnd(f.header.vectors_offset, FileLen(f))
    \/ OffsetPastEnd(f.header.connections_offset, FileLen(f))

\* Line 47: there are bytes after the header, so the checksum is compared.
ChecksumCompared(f) == FileLen(f) > HeaderSize

\* Lines 47-52: the checksum is compared and differs.
BadChecksum(f) ==
    /\ ChecksumCompared(f)
    /\ ChecksumDiffers(crc32(f.payload), f.header.checksum)

\* MmapIndex::load, lines 28-61: "Ok" or the error kind.
load(f) ==
    IF TooShort(f) THEN "FileTooSmall"
    ELSE IF BadMagic(f) THEN "InvalidMagic"
    ELSE IF OffsetsPastEnd(f) THEN "FileTooSmall"
    ELSE IF BadChecksum(f) THEN "ChecksumMismatch"
    ELSE "Ok"

\* The stages of load in the order of its code: Mmap::map, the length check,
\* the magic check, the offset check, the checksum comparison, the two
\* madvise calls of warmup and its prefault loop.
LoadOrder == <<"map", "length", "magic", "offsets", "checksum", "advise", "prefault">>

\* The stages a call of load on f has run when it returns result.
StagesOf(f, result) ==
    CASE result = "Io" -> Take(LoadOrder, 1)
      [] result = "FileTooSmall" -> IF TooShort(f) THEN Take(LoadOrder, 2)
                                    ELSE Take(LoadOrder, 4)
      [] result = "InvalidMagic" -> Take(LoadOrder, 3)
      [] result = "ChecksumMismatch" -> Take(LoadOrder, 5)
      [] result = "Ok" -> IF ChecksumCompared(f) THEN LoadOrder
                          ELSE Take(LoadOrder, 4) \o <<"advise", "prefault">>

\* --------------------------------------------------------------- quantizer

\* The greatest r in lo..hi with r * r <= n.
RECURSIVE ISqrt(_, _, _)
ISqrt(n, lo, hi) ==
    IF lo >= hi THEN lo
    ELSE Let((lo + hi + 1) \div 2, LAMBDA mid :
         IF mid * mid <= n THEN ISqrt(n, mid, hi) ELSE ISqrt(n, lo, mid - 1))

\* A quotient cut towards zero, as the casts `as u8` and `as i8` cut.
Trunc(a, b) == IF a >= 0 THEN a \div b ELSE -((-a) \div b)

\* Quantizer::l2_normalize of a vector of whole values; the result is in units
\* of 1 / Scale.  A whole sum of squares is above f32::EPSILON when it is not 0.
l2_normalize(vector) ==
    Let(SumSq(vector, [i \in 1..Len(vector) |-> 0], 1), LAMBDA sum_sq :
    IF sum_sq > 0
    THEN Let(ISqrt(sum_sq * Scale * Scale, 0, 4 * Scale), LAMBDA norm :
         [i \in 1..Len(vector) |-> Trunc(vector[i] * Scale * Scale, norm)])
    ELSE [i \in 1..Len(vector) |-> vector[i] * Scale])

\* val.max(-1.0).min(1.0).
Clamp(val) == Min(Max(val, -Scale), Scale)

\* Quantizer::quantize_u8: ((clamped + 1.0) * 127.5) as u8.
quantize_u8(vector) ==
    [i \in 1..Len(vector) |-> Trunc((Clamp(vector[i]) + Scale) * 1275, 10 * Scale)]

\* Quantizer::quantize_query: normalize, then (clamped * 127.0) as i8.
quantize_query(vector) ==
    Let(l2_normalize(vector), LAMBDA normalized :
    [i \in 1..Len(normalized) |-> Trunc(Clamp(normalized[i]) * 127, Scale)])

RECURSIVE DotFrom(_, _, _)
DotFrom(q, v, i) ==
    IF i > Len(q) THEN 0 ELSE q[i] * v[i] + DotFrom(q, v, i + 1)

\* dot_product_u8_scalar, and dot_product_u8_avx2 below 128 dimensions, where
\* it is its scalar tail: the negated dot product.
dot_product_u8(q, v) == -DotFrom(q, v, 1)

\* -------------------------------------------------------------- serializer
\* The save of src writes no quantized arena, and its header has no
\* quantized_vectors_offset for get_quantized_vector to read.  The file
\* search_two_stage works on is laid out as the format is specified: node
\* table, pad, u8 arena, pad, f32 arena, connection arena.

Align32(n) == ((n + 31) \div 32) * 32

Zeros(n) == [i \in 1..n |-> 0]

\* The u8 arena: each vector normalized, then quantized.
QuantizedArena(g) ==
    Flatten([i \in 1..Len(g) |-> quantize_u8(l2_normalize(g[i].vector))])

\* The f32 arena: each vector normalized.
FullArena(g) ==
    Flatten([i \in 1..Len(g) |->
        LET normalized == l2_normalize(g[i].vector) IN
        Flatten([j \in 1..Len(normalized) |-> F32Bytes(normalized[j])])])

\* The file the serializer leaves behind.
serialize(g, entry) ==
    LET num_nodes == Len(g)
        dim == IF num_nodes > 0 THEN Len(g[1].vector) ELSE 0
        nodes_offset == HeaderSize
        nodes_end == nodes_offset + num_nodes * OnDiskNodeSize
        q_offset == Align32(nodes_end)
        q_end == q_offset + num_nodes * dim
        f_offset == Align32(q_end)
        conn_offset == f_offset + num_nodes * dim * 4
        first == EntryPointId(entry)
        payload == Flatten([i \in 1..Len(g) |-> OnDiskNodeBytes(g, i)])
                   \o Zeros(q_offset - nodes_end)
                   \o QuantizedArena(g)
                   \o Zeros(f_offset - q_end)
                   \o FullArena(g)
                   \o Flatten([i \in 1..Len(ConnectionsData(g)) |->
                                  LE32(ConnectionsData(g)[i])])
    IN [header |-> [magic |-> "HNSWANN1",
                    version |-> 1,
                    dimension |-> dim,
                    num_elements |-> num_nodes,
                    entry_point_id |-> first,
                    max_layer |-> IF Stored(g, first) THEN g[first + 1].layer_max ELSE 0,
                    m |-> m,
                    m0 |-> m0,
                    ef_construction |-> ef_construction,
                    nodes_offset |-> nodes_offset,
                    quantized_vectors_offset |-> q_offset,
                    vectors_offset |-> f_offset,
                    connections_offset |-> conn_offset,
                    checksum |-> crc32(payload)],
        payload |-> payload]

\* A file no builder wrote: a header alone, of an index without elements.
\* Every offset is below the length of the file, which is all load asks of it.
EmptyIndexFile(entry_point_id, max_layer) ==
    [header |-> [magic |-> "HNSWANN1",
                 version |-> 1,
                 dimension |-> 2,
                 num_elements |-> 0,
                 entry_point_id |-> entry_point_id,
                 max_layer |-> max_layer,
                 m |-> m,
                 m0 |-> m0,
                 ef_construction |-> ef_construction,
                 nodes_offset |-> 0,
                 quantized_vectors_offset |-> 0,
                 vectors_offset |-> 0,
                 connections_offset |-> 0,
                 checksum |-> <<0, 0, 0, 0>>],
     payload |-> <<>>]

\* --------------------------------------------------------------- accessors
\* The mmap is the file.  The model holds the header by its fields, so a slice
\* is readable when it lies after the header and within the file; no file of
\* the model has an arena that starts inside the header and is read.

\* &self.mmap[start..end] does not panic.
InFile(f, start, end) == HeaderSize <= start /\ start <= end /\ end <= FileLen(f)

\* self.mmap[pos].
MmapByte(f, pos) == f.payload[pos - HeaderSize + 1]

\* A little-endian u32 at pos.
U32At(f, pos) ==
    MmapByte(f, pos) + 256 * MmapByte(f, pos + 1) + 65536 * MmapByte(f, pos + 2)
    + 16777216 * MmapByte(f, pos + 3)

\* An f32 that is none of the values the model stores.
OtherFloat == -999999

\* The f32 whose bits are the four bytes, in units of 1 / Scale.
F32Value(bytes) ==
    CASE bytes = <<0, 0, 0, 0>> -> 0
      [] bytes = <<0, 0, 128, 63>> -> Scale
      [] bytes = <<0, 0, 0, 64>> -> 2 * Scale
      [] bytes = <<243, 4, 53, 63>> -> 7071
      [] OTHER -> OtherFloat

\* nodes()[id] does not panic.
NodeInTable(f, id) ==
    /\ InFile(f, f.header.nodes_offset,
              f.header.nodes_offset + f.header.num_elements * OnDiskNodeSize)
    /\ 0 <= id
    /\ id < f.header.num_elements

\* nodes()[id].
OnDiskNodeAt(f, id) ==
    LET start == f.header.nodes_offset + id * OnDiskNodeSize IN
    [layer_count |-> MmapByte(f, start), connections_offset |-> U32At(f, start + 4)]

\* connections()[i] does not panic.
WordInArena(f, i) ==
    /\ InFile(f, f.header.connections_offset, FileLen(f))
    /\ 0 <= i
    /\ f.header.connections_offset + 4 * i + 4 <= FileLen(f)

\* connections()[i].
ConnectionWord(f, i) == U32At(f, f.header.connections_offset + 4 * i)

\* get_quantized_vector(id) does not panic.
QuantizedInFile(f, id) ==
    LET start == f.header.quantized_vectors_offset + id * f.header.dimension IN
    InFile(f, start, start + f.header.dimension)

get_quantized_vector(f, id) ==
    LET start == f.header.quantized_vectors_offset + id * f.header.dimension IN
    [j \in 1..f.header.dimension |-> MmapByte(f, start + j - 1)]

\* get_full_vector(id) does not panic.
FullInFile(f, id) ==
    LET start == f.header.vectors_offset + id * f.header.dimension * 4 IN
    InFile(f, start, start + f.header.dimension * 4)

get_full_vector(f, id) ==
    LET start == f.header.vectors_offset + id * f.header.dimension * 4 IN
    [j \in 1..f.header.dimension |->
        F32Value([b \in 1..4 |-> MmapByte(f, start + 4 * (j - 1) + b - 1)])]

\* --------------------------------------------------------- search_graph_u8

\* Lines 224-227: from the word offset of a node's first block to the block of
\* `level`; -1 when a count lies past the arena.
RECURSIVE SkipLevels(_, _, _)
SkipLevels(f, offset, level) ==
    IF ~WordInArena(f, offset) THEN -1
    ELSE IF level = 0 THEN offset
    ELSE Let(offset + 1 + ConnectionWord(f, offset), LAMBDA next :
         SkipLevels(f, next, level - 1))

\* The neighbour IDs of a node at a level, as lines 211-234 and 289-295 read
\* them; ok is FALSE when an index is out of bounds.
Neighbors(f, node_id, level) ==
    IF ~NodeInTable(f, node_id) THEN [ok |-> FALSE, ids |-> <<>>]
    ELSE Let(SkipLevels(f, OnDiskNodeAt(f, node_id).connections_offset \div 4, level),
             LAMBDA offset :
         IF offset < 0 THEN [ok |-> FALSE, ids |-> <<>>]
         ELSE Let(ConnectionWord(f, offset), LAMBDA count :
              IF count > 0 /\ ~WordInArena(f, offset + count)
              THEN [ok |-> FALSE, ids |-> <<>>]
              ELSE [ok |-> TRUE,
                    ids |-> [i \in 1..count |-> ConnectionWord(f, offset + i)]]))

\* The for loop of lines 232-242: the neighbours of the node the pass started
\* from, each compared with the closest so far.
RECURSIVE ZoomScan(_, _, _, _, _)
ZoomScan(f, q_i8, ids, i, cur) ==
    IF i > Len(ids) \/ ~cur.ok THEN cur
    ELSE IF ~QuantizedInFile(f, ids[i]) THEN [cur EXCEPT !.ok = FALSE]
    ELSE Let(dot_product_u8(q_i8, get_quantized_vector(f, ids[i])), LAMBDA d :
         Let(IF d < cur.curr_dist
             THEN [cur EXCEPT !.curr_dist = d, !.curr_obj = ids[i], !.changed = TRUE]
             ELSE cur,
             LAMBDA next : ZoomScan(f, q_i8, ids, i + 1, next)))

\* Lines 210-242: one pass of the while loop at one level.
ZoomPass(f, q_i8, level, cur) ==
    Let(Neighbors(f, cur.curr_obj, level), LAMBDA block :
        IF ~block.ok THEN [cur EXCEPT !.ok = FALSE]
        ELSE ZoomScan(f, q_i8, block.ids, 1, [cur EXCEPT !.changed = FALSE]))

\* The while loop of lines 209-243 at one level.
RECURSIVE ZoomWhile(_, _, _, _)
ZoomWhile(f, q_i8, level, cur) ==
    IF ~cur.ok \/ ~cur.changed THEN cur
    ELSE Let(ZoomPass(f, q_i8, level, cur),
             LAMBDA next : ZoomWhile(f, q_i8, level, next))

\* The for loop of lines 207-244: the levels max_layer down to 1.
RECURSIVE ZoomLevels(_, _, _, _)
ZoomLevels(f, q_i8, level, cur) ==
    IF level < 1 \/ ~cur.ok THEN cur
    ELSE Let(ZoomWhile(f, q_i8, level, [cur EXCEPT !.changed = TRUE]),
             LAMBDA next : ZoomLevels(f, q_i8, level - 1, next))

\* Lines 309-337 for one neighbour of the popped candidate.  w is a
\* BinaryHeap<Candidate>: w.peek() is its greatest item and w.pop() removes it.
VisitU8(f, q_i8, ef, my_version, st, nid) ==
    IF nid >= Len(st.visited) THEN [st EXCEPT !.ok = FALSE]
    ELSE IF st.visited[nid + 1] = my_version THEN st
    ELSE IF ~QuantizedInFile(f, nid) THEN [st EXCEPT !.ok = FALSE]
    ELSE Let(dot_product_u8(q_i8, get_quantized_vector(f, nid)), LAMBDA dist :
         LET seen == [st EXCEPT !.visited[nid + 1] = my_version,
                                !.evals = Append(@, nid)]
             nc == [distance |-> dist, node_id |-> nid]
         IN IF Len(st.w) < ef \/ dist < HeapPeek(st.w).distance
            THEN Let(HeapPush(FALSE, st.w, nc), LAMBDA pushed :
                 [seen EXCEPT !.candidates = HeapPush(TRUE, @, nc),
                              !.pushes = Append(@, nid),
                              !.w = IF Len(pushed) > ef
                                    THEN HeapPop(FALSE, pushed).data
                                    ELSE pushed])
            ELSE seen)

\* The for loop of line 307.
RECURSIVE VisitAllU8(_, _, _, _, _, _, _)
VisitAllU8(f, q_i8, ef, my_version, st, ids, i) ==
    IF i > Len(ids) \/ ~st.ok THEN st
    ELSE Let(VisitU8(f, q_i8, ef, my_version, st, ids[i]),
             LAMBDA next : VisitAllU8(f, q_i8, ef, my_version, next, ids, i + 1))

\* Lines 278-288: the while loop runs another pass: a candidate is popped and
\* the break is not taken.
SearchGoesOnU8(ef, st) ==
    /\ st.ok
    /\ st.candidates # <<>>
    /\ ~(/\ st.w # <<>>
         /\ HeapPop(TRUE, st.candidates).item.distance > HeapPeek(st.w).distance
         /\ Len(st.w) >= ef)

\* Lines 279-337: one pass of the while loop that does not break.
SearchPassU8(f, q_i8, ef, my_version, st) ==
    Let(HeapPop(TRUE, st.candidates), LAMBDA popped :
    Let(Neighbors(f, popped.item.node_id, 0), LAMBDA block :
        IF ~block.ok THEN [st EXCEPT !.ok = FALSE]
        ELSE VisitAllU8(f, q_i8, ef, my_version,
                        [st EXCEPT !.candidates = popped.data], block.ids, 1)))

\* The while loop of lines 278-339.
RECURSIVE SearchLoopU8(_, _, _, _, _)
SearchLoopU8(f, q_i8, ef, my_version, st) ==
    IF SearchGoesOnU8(ef, st)
    THEN Let(SearchPassU8(f, q_i8, ef, my_version, st),
             LAMBDA next : SearchLoopU8(f, q_i8, ef, my_version, next))
    ELSE st

\* Lines 265-276: the locals of the layer 0 search before the while loop; the
\* node the zoom ended at is marked and pushed on both heaps.
SearchStartU8(resized, my_version, c) ==
    [ok |-> TRUE,
     visited |-> [resized EXCEPT ![c.node_id + 1] = my_version],
     candidates |-> HeapPush(TRUE, <<>>, c),
     w |-> HeapPush(FALSE, <<>>, c),
     evals |-> <<c.node_id>>, pushes |-> <<c.node_id>>]

\* A search that never takes the index for empty.
IndexNeverEmpty(num_nodes) == FALSE

\* Line 194: num_nodes == 0.
IndexIsEmpty(num_nodes) == num_nodes = 0

\* Line 252, *version += 1: the sum does not fit the counter.
IncrementOverflows(current) == current + 1 >= VersionModulus

\* A searcher that marks the nodes of every query with the same value.
FirstVersion(current) == 1

\* Lines 252-253: the version of the query, in a build that wraps.
NextVersion(current) == (current + 1) % VersionModulus

\* search_graph_u8 for a thread whose statics are tl, in a build with
\* (tl.checks) or without overflow checks.  ok is FALSE when the call panics; w
\* is w.into_vec(), the heap in the order of its array; reads names the arenas
\* the call has read from; marked holds the nodes whose mark equals the
\* version of the call before the call has marked any; overflow tells that
\* the increment of the counter did not fit.
search_graph_u8(f, q_i8, ef, tl) ==
    LET num_nodes == f.header.num_elements
        entry == f.header.entry_point_id
        failed == [ok |-> FALSE, w |-> <<>>, version |-> tl.version,
                   visited |-> tl.visited, reads |-> {"quantized"},
                   marked |-> {}, overflow |-> FALSE]
    IN IF IndexIsEmpty(num_nodes)
       THEN [ok |-> TRUE, w |-> <<>>, version |-> tl.version,
             visited |-> tl.visited, reads |-> {}, marked |-> {},
             overflow |-> FALSE]
       ELSE IF ~QuantizedInFile(f, entry) THEN failed
       ELSE Let(ZoomLevels(f, q_i8, f.header.max_layer,
                           [ok |-> TRUE, curr_obj |-> entry, changed |-> FALSE,
                            curr_dist |-> dot_product_u8(
                                q_i8, get_quantized_vector(f, entry))]),
                LAMBDA zoomed :
            LET my_version == NextVersion(tl.version)
                overflow == IncrementOverflows(tl.version)
                resized == IF Len(tl.visited) < num_nodes
                           THEN tl.visited \o Zeros(num_nodes - Len(tl.visited))
                           ELSE tl.visited
                marked == {id \in 0..(num_nodes - 1) : resized[id + 1] = my_version}
                c == [distance |-> zoomed.curr_dist, node_id |-> zoomed.curr_obj]
                zoom_reads == {"quantized", "nodes", "connections"}
            IN IF ~zoomed.ok THEN [failed EXCEPT !.reads = zoom_reads]
               ELSE IF overflow /\ tl.checks
               THEN [failed EXCEPT !.reads = zoom_reads, !.overflow = TRUE]
               ELSE IF zoomed.curr_obj >= Len(resized)
               THEN [failed EXCEPT !.version = my_version, !.visited = resized,
                                   !.reads = zoom_reads, !.marked = marked,
                                   !.overflow = overflow]
               ELSE Let(SearchLoopU8(f, q_i8, ef, my_version,
                                     SearchStartU8(resized, my_version, c)),
                        LAMBDA st :
                    [ok |-> st.ok, w |-> st.w, version |-> my_version,
                     visited |-> st.visited, reads |-> zoom_reads,
                     marked |-> marked, overflow |-> overflow]))

\* -------------------------------------------------------- search_two_stage

\* The distance of the rerank, line 166: the query as it was given against the
\* stored vector.
RerankDistance(query, f_vec) ==
    euclidean_distance([i \in 1..Len(query) |-> query[i] * Scale], f_vec)

\* A rerank that returns the candidates in the order it computed them.
ResultsUnsorted(results) == results

\* Line 171: results.sort_by(distance), a stable sort.
SortResults(results) == SortByDistance(results, Len(results))

\* MmapIndex::search_two_stage on a CPU with or without AVX2.  The rerank calls
\* euclidean_distance_avx2 whatever the CPU is: without AVX2 the first call of
\* it ends the process.
search_two_stage(f, query, k, ef_search, avx2, tl) ==
    Let(quantize_query(query), LAMBDA q_i8 :
    Let(search_graph_u8(f, q_i8, Max(k, ef_search), tl), LAMBDA candidates :
    LET failed == [ok |-> FALSE, list |-> <<>>, version |-> candidates.version,
                   visited |-> candidates.visited, reads |-> candidates.reads,
                   coarse |-> candidates.w, marked |-> candidates.marked,
                   overflow |-> candidates.overflow,
                   kernels |-> IF IndexIsEmpty(f.header.num_elements) THEN {}
                               ELSE {IF avx2 THEN "dot_product_u8_avx2"
                                     ELSE "dot_product_u8_scalar"}]
        reranked == [failed EXCEPT !.kernels = @ \cup {"euclidean_distance_avx2"}]
    IN IF ~candidates.ok THEN failed
       ELSE IF candidates.w = <<>> THEN [failed EXCEPT !.ok = TRUE]
       ELSE IF ~avx2 THEN reranked
       ELSE IF \E i \in 1..Len(candidates.w) : ~FullInFile(f, candidates.w[i].node_id)
       THEN [failed EXCEPT !.reads = @ \cup {"vectors"}]
       ELSE LET results ==
                    [i \in 1..Len(candidates.w) |->
                        [distance |-> RerankDistance(
                                          query,
                                          get_full_vector(f, candidates.w[i].node_id)),
                         node_id |-> candidates.w[i].node_id]]
            IN [reranked EXCEPT !.ok = TRUE,
                              !.list = Pairs(Take(SortResults(results), k)),
                              !.reads = @ \cup {"vectors"}]))

\* ------------------------------------------------------ the file on disk

\* One whole insert call.
InsertCall(vector, layer_max) ==
    /\ pc = "idle"
    /\ calls < MaxFileNodes
    /\ file = NoFile
    /\ LET done == insert(Builder, vector, layer_max) IN
       /\ BecomeBuilder(done)
       /\ ret' = IF done.pc = "idle" THEN InsertRet(done) ELSE NoRet
    /\ calls' = calls + 1
    /\ UNCHANGED <<Config, fileVars, threadVars>>

\* save, with the key rand::random() drew.
Save(key_32) ==
    /\ pc = "idle"
    /\ file = NoFile
    /\ file' = [kind |-> "saved", changed |-> 0] @@ save(nodes, entry_point, key_32)
    /\ ret' = [kind |-> "save"]
    /\ UNCHANGED <<Config, nodes, entry_point, pc, ins, calls, loaded, stages, threadVars>>

\* Something overwrites one byte of the saved file after its header, the one
\* at position HeaderSize + pos - 1, with another value.
Corrupt ==
    /\ file.kind = "saved"
    /\ loaded = "none"
    /\ \E pos \in 1..Len(file.payload) :
         \E value \in ByteValues \ {file.payload[pos]} :
           file' = [file EXCEPT !.kind = "corrupted",
                                !.changed = HeaderSize + pos - 1,
                                !.payload[pos] = value]
    /\ UNCHANGED <<builderVars, loaded, stages, threadVars>>

\* load of the file on disk.
Load ==
    /\ file # NoFile
    /\ loaded = "none"
    /\ loaded' = load(file)
    /\ stages' = StagesOf(file, loaded')
    /\ UNCHANGED <<builderVars, file, threadVars>>

\* ------------------------------------------------------ load, stage by stage

\* Lines 25-26: File::open and Mmap::map; they fail when there is no file.
LoadMap ==
    /\ loaded = "none"
    /\ stages = <<>>
    /\ stages' = <<"map">>
    /\ loaded' = IF file = NoFile THEN "Io" ELSE "none"
    /\ UNCHANGED <<builderVars, file, threadVars>>

\* Lines 28-30.
LoadLength ==
    /\ loaded = "none"
    /\ stages = <<"map">>
    /\ stages' = Append(stages, "length")
    /\ loaded' = IF TooShort(file) THEN "FileTooSmall" ELSE "none"
    /\ UNCHANGED <<builderVars, file, threadVars>>

\* Lines 32-36.
LoadMagic ==
    /\ loaded = "none"
    /\ stages # <<>>
    /\ Last(stages) = "length"
    /\ stages' = Append(stages, "magic")
    /\ loaded' = IF BadMagic(file) THEN "InvalidMagic" ELSE "none"
    /\ UNCHANGED <<builderVars, file, threadVars>>

\* Lines 38-43.
LoadOffsets ==
    /\ loaded = "none"
    /\ stages # <<>>
    /\ Last(stages) = "magic"
    /\ stages' = Append(stages, "offsets")
    /\ loaded' = IF OffsetsPastEnd(file) THEN "FileTooSmall" ELSE "none"
    /\ UNCHANGED <<builderVars, file, threadVars>>

\* Lines 46-55, when the file is longer than its header.
LoadChecksum ==
    /\ loaded = "none"
    /\ stages # <<>>
    /\ Last(stages) = "offsets"
    /\ ChecksumCompared(file)
    /\ stages' = Append(stages, "checksum")
    /\ loaded' = IF BadChecksum(file) THEN "ChecksumMismatch" ELSE "none"
    /\ UNCHANGED <<builderVars, file, threadVars>>

\* Lines 57-59 and 71-75: warmup is entered and advises the kernel, after the
\* checksum was compared or, for a file that ends with its header, was not.
LoadAdvise ==
    /\ loaded = "none"
    /\ stages # <<>>
    /\ \/ Last(stages) = "checksum"
       \/ Last(stages) = "offsets" /\ ~ChecksumCompared(file)
    /\ stages' = Append(stages, "advise")
    /\ UNCHANGED <<builderVars, file, loaded, threadVars>>

\* Lines 79-81: every page is touched.
LoadPrefault ==
    /\ loaded = "none"
    /\ stages # <<>>
    /\ Last(stages) = "advise"
    /\ stages' = Append(stages, "prefault")
    /\ UNCHANGED <<builderVars, file, loaded, threadVars>>

\* Lines 83 and 61: warmup returns and load returns the index.
LoadReturn ==
    /\ loaded = "none"
    /\ stages # <<>>
    /\ Last(stages) = "prefault"
    /\ loaded' = "Ok"
    /\ UNCHANGED <<builderVars, file, stages, threadVars>>

\* ------------------------------------------------- files no builder wrote

\* The offsets, payloads and lengths of the files that are put in place.
CraftOffsets == {0, 256, 260, 264, 268, 272, 512}
CraftPayloads == {<<>>, [i \in 1..16 |-> 0], [i \in 1..24 |-> i]}
ShortLengths == {0, 255}

\* A checksum the payload does not have.
WrongChecksum(payload) == [crc32(payload) EXCEPT ![1] = (@ + 1) % 256]

\* Someone puts a file with a whole header in place.
CraftFile(magic, nodes_offset, vectors_offset, connections_offset, payload, sound) ==
    /\ file = NoFile
    /\ nodes = <<>>
    /\ stages = <<>>
    /\ file' = [kind |-> "crafted",
                header |-> [magic |-> magic,
                            version |-> 1,
                            dimension |-> 2,
                            num_elements |-> 1,
                            entry_point_id |-> 0,
                            max_layer |-> 0,
                            m |-> m,
                            m0 |-> m0,
                            ef_construction |-> ef_construction,
                            nodes_offset |-> nodes_offset,
                            vectors_offset |-> vectors_offset,
                            connections_offset |-> connections_offset,
                            checksum |-> IF sound THEN crc32(payload)
                                         ELSE WrongChecksum(payload)],
                payload |-> payload]
    /\ UNCHANGED <<builderVars, loaded, stages, threadVars>>

\* Someone puts a file in place that is shorter than a header.
CraftShortFile(len) ==
    /\ file = NoFile
    /\ nodes = <<>>
    /\ stages = <<>>
    /\ file' = [kind |-> "short", len |-> len]
    /\ UNCHANGED <<builderVars, loaded, stages, threadVars>>

Init == InitBuilder /\ InitFile /\ InitThread

Next ==
    \/ \E vector \in Vectors, layer_max \in Levels : InsertFirst(vector, layer_max)
    \/ \E vector \in Vectors, layer_max \in Levels : InsertZoom(vector, layer_max)
    \/ InsertSearch
    \/ InsertPush
    \/ InsertPrune
    \/ InsertFinish
    \/ \E query \in Vectors, k \in 1..MaxK : Search(query, k)

\* The builder: insert calls step by step, and search calls between them.
Spec == Init /\ [][Next]_vars

\* The serializer writes the builder's graph as an index file.
WriteIndex ==
    /\ pc = "idle"
    /\ file = NoFile
    /\ file' = [kind |-> "index", changed |-> 0] @@ serialize(nodes, entry_point)
    /\ ret' = [kind |-> "save"]
    /\ UNCHANGED <<Config, nodes, entry_point, pc, ins, calls, loaded, stages, threadVars>>

\* Someone else puts the file of an empty index in place.
WriteEmptyIndex(entry_point_id, max_layer) ==
    /\ nodes = <<>>
    /\ file = NoFile
    /\ file' = [kind |-> "index", changed |-> 0]
               @@ EmptyIndexFile(entry_point_id, max_layer)
    /\ UNCHANGED <<builderVars, loaded, stages, threadVars>>

\* search_two_stage on the loaded index.
SearchTwoStage(t, query, k, ef_search, avx2, checks) ==
    /\ loaded = "Ok"
    /\ file.kind = "index"
    /\ \E found \in {search_two_stage(file, query, k, ef_search, avx2,
                                        [version |-> version[t],
                                         visited |-> visited[t],
                                         checks |-> checks])} :
          /\ ret' = [kind |-> "search_two_stage", thread |-> t, query |-> query,
                     k |-> k, ef_search |-> ef_search, avx2 |-> avx2,
                     ok |-> found.ok, list |-> found.list, reads |-> found.reads,
                     coarse |-> found.coarse, marked |-> found.marked,
                     overflow |-> found.overflow, kernels |-> found.kernels]
          /\ version' = [version EXCEPT ![t] = found.version]
          /\ visited' = [visited EXCEPT ![t] = found.visited]
    /\ UNCHANGED <<Config, nodes, entry_point, pc, ins, calls, fileVars>>

InitFiles ==
    /\ Init
    /\ Config = FileConfig

NextFiles ==
    \/ \E vector \in FileVectors, layer_max \in Levels : InsertCall(vector, layer_max)
    \/ \E key_32 \in Keys : Save(key_32)
    \/ Corrupt
    \/ Load

\* A builder is filled, saved, the file is damaged or not, and loaded.
SpecFiles == InitFiles /\ [][NextFiles]_vars

\* ------------------------------------------------- reads of a loaded file

\* MmapIndex::header.
ReadHeader ==
    /\ loaded = "Ok"
    /\ ret' = [kind |-> "header", header |-> file.header]
    /\ UNCHANGED <<Config, nodes, entry_point, pc, ins, calls, fileVars, threadVars>>

\* The neighbour list of a node at a level, read as search_graph_u8 reads it.
ReadNeighbors(id, level) ==
    /\ loaded = "Ok"
    /\ \E block \in {Neighbors(file, id, level)} :
          ret' = [kind |-> "neighbors", id |-> id, level |-> level,
                  ok |-> block.ok, ids |-> block.ids]
    /\ UNCHANGED <<Config, nodes, entry_point, pc, ins, calls, fileVars, threadVars>>

\* MmapIndex::get_full_vector; the slice panics outside the file.
GetFullVector(id) ==
    /\ loaded = "Ok"
    /\ ret' = IF FullInFile(file, id)
              THEN [kind |-> "get_full_vector", id |-> id, ok |-> TRUE,
                    vector |-> get_full_vector(file, id)]
              ELSE [kind |-> "get_full_vector", id |-> id, ok |-> FALSE,
                    vector |-> <<>>]
    /\ UNCHANGED <<Config, nodes, entry_point, pc, ins, calls, fileVars, threadVars>>

\* ------------------------------------------- several threads, one index

\* The vectors the shared indexes are built from.
ThreadVectors == {<<0, 1>>, <<2, 2>>}

\* The queries the threads run.
ThreadQueries == {<<1, 0>>}

\* The MmapIndex is dropped: the mapping is gone and another index can be
\* written and loaded.
CloseIndex ==
    /\ loaded = "Ok"
    /\ file' = NoFile
    /\ loaded' = "none"
    /\ stages' = <<>>
    /\ ret' = [kind |-> "close"]
    /\ UNCHANGED <<Config, nodes, entry_point, pc, ins, calls, threadVars>>

\* The thread-locals of a thread that has run no search.
FreshThread == [version |-> 0, visited |-> <<>>, checks |-> FALSE]

\* HNSW::new with the configuration of the dropped builder: the next index is
\* built from nothing.
NewBuilder ==
    /\ pc = "idle"
    /\ file = NoFile
    /\ nodes # <<>>
    /\ nodes' = <<>>
    /\ entry_point' = NoneId
    /\ ins' = NoIns
    /\ calls' = 0
    /\ ret' = NoRet
    /\ UNCHANGED <<Config, pc, fileVars, threadVars>>

InitThreads ==
    /\ Init
    /\ Config = IndexConfig

NextThreads ==
    \/ \E vector \in ThreadVectors, layer_max \in Levels : InsertCall(vector, layer_max)
    \/ NewBuilder
    \/ WriteIndex
    \/ Load
    \/ CloseIndex
    \/ \E t \in Threads, query \in ThreadQueries, k \in 1..MaxFileNodes :
           /\ version[t] < MaxVersion
           /\ SearchTwoStage(t, query, k, 1, TRUE, FALSE)

\* Indexes are written, loaded and dropped, and the threads search the loaded
\* one in any interleaving, each at most MaxVersion times.
SpecThreads == InitThreads /\ [][NextThreads]_vars

NextWrap ==
    \/ \E vector \in ThreadVectors : InsertCall(vector, 0)
    \/ WriteIndex
    \/ Load
    \/ CloseIndex
    \/ \E query \in ThreadQueries, k \in 1..MaxFileNodes, checks \in BOOLEAN :
           SearchTwoStage(MainThread, query, k, 1, TRUE, checks)

\* A thread searches indexes of growing size without end: its version counter,
\* of VersionBits bits, overflows.
SpecWrap == InitThreads /\ [][NextWrap]_vars

\* ------------------------------------------------------- the greedy zoom

\* One whole insert call of the builder whose zoom is looked at; what it
\* returns is kept with the node its zoom ended at.
InsertWhole(vector, layer_max) ==
    /\ pc = "idle"
    /\ calls < MaxZoomNodes
    /\ LET begun == InsertBegin(Builder, vector, layer_max)
           done == InsertRun(begun)
       IN /\ BecomeBuilder(done)
          /\ ret' = IF done.pc = "idle"
                    THEN InsertRet(done) @@ [query |-> vector,
                                             layer_max |-> layer_max,
                                             zoomed |-> begun.ins.curr_obj]
                    ELSE NoRet
    /\ calls' = calls + 1
    /\ UNCHANGED <<Config, fileVars, threadVars>>

InitZoom ==
    /\ Init
    /\ Config = ZoomConfig

NextZoom ==
    \/ \E vector \in ZoomVectors, layer_max \in Levels : InsertWhole(vector, layer_max)
    \/ \E query \in ZoomQueries, k \in 1..1 : Search(query, k)

\* A builder of up to MaxZoomNodes nodes is filled and searched.
SpecZoom == InitZoom /\ [][NextZoom]_vars

InitSave ==
    /\ Init
    /\ Config = IndexConfig

NextSave ==
    \/ \E vector \in IndexVectors, layer_max \in Levels : InsertCall(vector, layer_max)
    \/ \E key_32 \in Keys : Save(key_32)
    \/ Load
    \/ ReadHeader
    \/ \E id \in 0..(MaxFileNodes - 1), level \in Levels : ReadNeighbors(id, level)
    \/ \E id \in 0..(MaxFileNodes - 1) : GetFullVector(id)

\* A builder is filled and saved, the file is loaded and read.
SpecSave == InitSave /\ [][NextSave]_vars

InitLoader ==
    /\ Init
    /\ Config = FileConfig

NextLoader ==
    \/ /\ stages = <<>>
       /\ \E vector \in FileVectors, layer_max \in Levels : InsertCall(vector, layer_max)
    \/ /\ stages = <<>>
       /\ \E key_32 \in Keys : Save(key_32)
    \/ \E magic \in {"HNSWANN1", "HNSWANN2"}, nodes_offset \in CraftOffsets,
          vectors_offset \in CraftOffsets, connections_offset \in CraftOffsets,
          payload \in CraftPayloads, sound \in BOOLEAN :
           CraftFile(magic, nodes_offset, vectors_offset, connections_offset,
                     payload, sound)
    \/ \E len \in ShortLengths : CraftShortFile(len)
    \/ LoadMap
    \/ LoadLength
    \/ LoadMagic
    \/ LoadOffsets
    \/ LoadChecksum
    \/ LoadAdvise
    \/ LoadPrefault
    \/ LoadReturn

\* Files of a builder and files of others are loaded, stage by stage.
SpecLoader == InitLoader /\ [][NextLoader]_vars

InitIndex ==
    /\ Init
    /\ Config = IndexConfig

NextIndex ==
    \/ \E vector \in IndexVectors, layer_max \in Levels : InsertCall(vector, layer_max)
    \/ \E query \in Vectors, k \in 1..MaxK : file = NoFile /\ Search(query, k)
    \/ WriteIndex
    \/ \E entry_point_id \in 0..1, max_layer \in 0..1 :
           WriteEmptyIndex(entry_point_id, max_layer)
    \/ Load
    \/ /\ version[MainThread] < MaxVersion
       /\ \E query \in IndexQueries, k \in 1..MaxK, ef_search \in EfSearches,
             avx2 \in BOOLEAN :
              SearchTwoStage(MainThread, query, k, ef_search, avx2, FALSE)

\* A builder is filled and searched, written as an index and loaded, and the
\* index is searched.
SpecIndex == InitIndex /\ [][NextIndex]_vars

\* ------------------------------------------------------------- traversals

\* The fields of HNSW and Node are pub: a graph can be put together by hand.
\* Three nodes, the first two with a layer 1 where they list each other; at
\* layer 0 any lists without a repeated ID and without the node itself:
\* cycles and one-way edges are among them.
TraverseVectors == <<<<0, 0>>, <<0, 1>>, <<2, 2>>>>

ListsOver(ids) ==
    {<<>>} \cup {<<a>> : a \in ids}
           \cup {pair \in ids \X ids : pair[1] # pair[2]}

TraverseGraphs ==
    {<<NewNode(0, TraverseVectors[1], 1, <<a0, a1>>),
       NewNode(1, TraverseVectors[2], 1, <<b0, b1>>),
       NewNode(2, TraverseVectors[3], 0, <<c0>>)>> :
        a0 \in ListsOver({1, 2}), b0 \in ListsOver({0, 2}), c0 \in ListsOver({0, 1}),
        a1 \in {<<1>>}, b1 \in {<<0>>}}

\* The ef of a traversal run step by step.
TraverseEfs == {1, 2}

\* Lines 155-174: search_layer is called and reaches its while loop.
SearchLayerBegin(query, entry, ef, level) ==
    /\ pc = "idle"
    /\ file = NoFile
    /\ HasLayer(nodes, entry, level)
    /\ pc' = "search_layer"
    /\ ins' = [query |-> query, entry |-> entry, ef |-> ef, level |-> level,
               st |-> SearchStart(nodes, query, entry)]
    /\ ret' = NoRet
    /\ UNCHANGED <<Config, nodes, entry_point, calls, fileVars, threadVars>>

\* Lines 176-201: one pass of the while loop of search_layer.
SearchLayerPass ==
    /\ pc = "search_layer"
    /\ SearchGoesOn(ins.ef, ins.st)
    /\ ins' = [ins EXCEPT !.st = SearchPass(nodes, ins.query, ins.ef, ins.level, @)]
    /\ UNCHANGED <<Config, nodes, entry_point, pc, calls, ret, fileVars, threadVars>>

\* Line 203: the loop is over and search_layer returns w; or it has panicked.
SearchLayerReturn ==
    /\ pc = "search_layer"
    /\ ~SearchGoesOn(ins.ef, ins.st)
    /\ pc' = IF ins.st.ok THEN "idle" ELSE "panicked"
    /\ ret' = [kind |-> "search_layer", query |-> ins.query, entry |-> ins.entry,
               ef |-> ins.ef, level |-> ins.level, ok |-> ins.st.ok,
               list |-> Pairs(ins.st.w), evals |-> ins.st.evals,
               pushes |-> ins.st.pushes]
    /\ ins' = NoIns
    /\ UNCHANGED <<Config, nodes, entry_point, calls, fileVars, threadVars>>

\* Lines 189-205: search_graph_u8 is called on a loaded index that is not
\* empty and reaches the zoom at the top layer.
SearchGraphBegin(query, ef) ==
    /\ pc = "idle"
    /\ loaded = "Ok"
    /\ file.kind = "index"
    /\ version[MainThread] < MaxVersion
    /\ ~IndexIsEmpty(file.header.num_elements)
    /\ QuantizedInFile(file, file.header.entry_point_id)
    /\ pc' = "zoom"
    /\ \E q_i8 \in {quantize_query(query)} :
          ins' = [query |-> query, q_i8 |-> q_i8, ef |-> ef,
                  level |-> file.header.max_layer,
                  cur |-> [ok |-> TRUE, curr_obj |-> file.header.entry_point_id,
                           changed |-> TRUE,
                           curr_dist |-> dot_product_u8(
                               q_i8, get_quantized_vector(
                                         file, file.header.entry_point_id))]]
    /\ ret' = NoRet
    /\ UNCHANGED <<Config, nodes, entry_point, calls, fileVars, threadVars>>

\* Lines 209-243: one pass of the while loop of the zoom.
ZoomPassStep ==
    /\ pc = "zoom"
    /\ ins.level >= 1 /\ ins.cur.ok /\ ins.cur.changed
    /\ ins' = [ins EXCEPT !.cur = ZoomPass(file, ins.q_i8, ins.level, @)]
    /\ UNCHANGED <<Config, nodes, entry_point, pc, calls, ret, fileVars, threadVars>>

\* Lines 207-209: the while loop has ended without a change and the for loop
\* goes to the next level down.
ZoomNextLevel ==
    /\ pc = "zoom"
    /\ ins.level >= 1 /\ ins.cur.ok /\ ~ins.cur.changed
    /\ ins' = [ins EXCEPT !.level = @ - 1, !.cur.changed = TRUE]
    /\ UNCHANGED <<Config, nodes, entry_point, pc, calls, ret, fileVars, threadVars>>

\* Lines 247-276: the zoom is over; the version is drawn, the marks are
\* resized and the node the zoom ended at starts the layer 0 search.
ZoomEnd ==
    /\ pc = "zoom"
    /\ ins.level < 1 \/ ~ins.cur.ok
    /\ LET num_nodes == file.header.num_elements
           my_version == NextVersion(version[MainThread])
           marks == visited[MainThread]
           resized == IF Len(marks) < num_nodes
                      THEN marks \o Zeros(num_nodes - Len(marks))
                      ELSE marks
           c == [distance |-> ins.cur.curr_dist, node_id |-> ins.cur.curr_obj]
       IN IF ~ins.cur.ok
          THEN /\ pc' = "panicked"
               /\ UNCHANGED <<ins, threadVars>>
          ELSE IF ins.cur.curr_obj >= Len(resized)
          THEN /\ pc' = "panicked"
               /\ version' = [version EXCEPT ![MainThread] = my_version]
               /\ visited' = [visited EXCEPT ![MainThread] = resized]
               /\ UNCHANGED ins
          ELSE /\ pc' = "search_graph_u8"
               /\ \E st \in {SearchStartU8(resized, my_version, c)} :
                     /\ ins' = [query |-> ins.query, q_i8 |-> ins.q_i8,
                                ef |-> ins.ef, my_version |-> my_version,
                                zoomed |-> ins.cur.curr_obj, st |-> st]
                     /\ visited' = [visited EXCEPT ![MainThread] = st.visited]
               /\ version' = [version EXCEPT ![MainThread] = my_version]
    /\ UNCHANGED <<Config, nodes, entry_point, calls, ret, fileVars>>

\* Lines 278-339: one pass of the while loop of the layer 0 search.
SearchGraphPass ==
    /\ pc = "search_graph_u8"
    /\ SearchGoesOnU8(ins.ef, ins.st)
    /\ \E st \in {SearchPassU8(file, ins.q_i8, ins.ef, ins.my_version, ins.st)} :
          /\ ins' = [ins EXCEPT !.st = st]
          /\ visited' = [visited EXCEPT ![MainThread] = st.visited]
    /\ UNCHANGED <<Config, nodes, entry_point, pc, calls, ret, fileVars, version>>

\* Line 343: the loop is over and search_graph_u8 returns w.into_vec(); or it
\* has panicked.
SearchGraphReturn ==
    /\ pc = "search_graph_u8"
    /\ ~SearchGoesOnU8(ins.ef, ins.st)
    /\ pc' = IF ins.st.ok THEN "idle" ELSE "panicked"
    /\ ret' = [kind |-> "search_graph_u8", query |-> ins.query, ef |-> ins.ef,
               ok |-> ins.st.ok, w |-> ins.st.w, zoomed |-> ins.zoomed,
               evals |-> ins.st.evals, pushes |-> ins.st.pushes]
    /\ ins' = NoIns
    /\ UNCHANGED <<Config, nodes, entry_point, calls, fileVars, threadVars>>

InitTraverse ==
    /\ layers \in LayerChoices
    /\ ef_construction \in EfChoices
    /\ m \in MChoices
    /\ m0 \in M0Choices
    /\ Config = IndexConfig
    /\ nodes \in TraverseGraphs
    /\ entry_point = 0
    /\ pc = "idle"
    /\ ins = NoIns
    /\ calls = 0
    /\ ret = NoRet
    /\ InitFile
    /\ InitThread

\* The steps of a traversal that has begun.
TraverseRuns ==
    \/ SearchLayerPass
    \/ SearchLayerReturn
    \/ ZoomPassStep
    \/ ZoomNextLevel
    \/ ZoomEnd
    \/ SearchGraphPass
    \/ SearchGraphReturn

NextTraverse ==
    \/ \E query \in IndexQueries, entry \in 0..2, ef \in TraverseEfs, level \in Levels :
           SearchLayerBegin(query, entry, ef, level)
    \/ WriteIndex
    \/ Load
    \/ \E query \in IndexQueries, ef \in TraverseEfs : SearchGraphBegin(query, ef)
    \/ TraverseRuns

\* Traversals of a hand-made graph and of its index, pass by pass; a call that
\* has begun keeps running.
SpecTraverse == InitTraverse /\ [][NextTraverse]_vars /\ WF_vars(TraverseRuns)

\* ------------------------------------------------------------------ claims

\* No insert call is running: the builder is as the calls made so far left it.
AtRest == pc \in {"idle", "panicked"}

\* The adjacency list of the stored node n (a position of nodes) at layer l.
Conn(n, l) == nodes[n].connections[l + 1]

NodeLayers(n) == 0..nodes[n].layer_max

\* C1: after any sequence of insert calls every list of every stored node
\* holds at most M0 IDs at layer 0 and at most M IDs at the layers above.
C1_DegreeCaps ==
    AtRest => \A n \in 1..Len(nodes) : \A l \in NodeLayers(n) :
                  Len(Conn(n, l)) <= MLevel(l)

\* C2: no insert call fails: no step of insert reads a node ID that is not
\* stored or a layer a node does not have.
C2_InsertCannotFail == pc # "panicked"

\* C3: the entry point is set iff a node is stored, it names a stored node, and
\* no stored node has a higher layer_max than the node it names.
C3_EntryPointDominance ==
    /\ (entry_point # NoneId) <=> (Len(nodes) > 0)
    /\ entry_point # NoneId =>
         /\ Stored(nodes, entry_point)
         /\ \A n \in 1..Len(nodes) :
               nodes[entry_point + 1].layer_max >= nodes[n].layer_max

\* C3: the entry point has moved to a node inserted later.
C3_Witness == pc = "idle" /\ Len(nodes) >= 2 /\ entry_point > 0

\* C4: right after the back-link is appended and before the neighbour is
\* pruned, the neighbour b chosen for the new node a at layer l lists a.
C4_Bidirectionality ==
    pc = "prune" =>
        LET b == Head(ins.pending) IN
        /\ b \in Range(ins.connections[ins.level + 1])
        /\ ins.id \in Range(Conn(b + 1, ins.level))

\* C4: a back-link has just been appended at an upper layer.
C4_Witness == pc = "prune" /\ ins.level = 1 /\ Len(nodes) >= 2

\* C5: no stored node lists itself, and no list holds an ID twice.
C5_NoSelfLoopNoDuplicate ==
    \A n \in 1..Len(nodes) : \A l \in NodeLayers(n) :
        /\ nodes[n].id \notin Range(Conn(n, l))
        /\ Cardinality(Range(Conn(n, l))) = Len(Conn(n, l))

\* C5: a stored node has two neighbours at layer 0 after three inserts.
C5_Witness ==
    /\ pc = "idle"
    /\ Len(nodes) = 3
    /\ \E n \in 1..Len(nodes) : Len(Conn(n, 0)) = 2

\* C6: the i-th insert call returns ID i and stores one node at position i
\* with id i: between calls there are as many nodes as calls made, node i has
\* id i, and the last insert returned the last ID.
C6_AppendOnlyDenseIds ==
    AtRest =>
        /\ Len(nodes) = calls
        /\ \A n \in 1..Len(nodes) : nodes[n].id = n - 1
        /\ (pc = "panicked" \/ ret.kind = "insert") => ret = [kind |-> "insert", id |-> calls - 1]

\* The distances of an (id, distance) list never decrease.
Ascending(list) == \A i \in 1..(Len(list) - 1) : list[i][2] <= list[i + 1][2]

C8_ExactOnSmallGraphs ==
    (/\ ret.kind = "search"
     /\ Len(nodes) - 1 <= Min(m, m0)
     /\ Len(nodes) <= ef_construction
     /\ ret.k <= Len(nodes))
    => /\ ret.ok
       /\ Len(ret.list) = ret.k
       /\ Cardinality({ret.list[i][1] : i \in 1..Len(ret.list)}) = ret.k
       /\ \A i \in 1..Len(ret.list) :
             /\ Stored(nodes, ret.list[i][1])
             /\ ret.list[i][2] =
                    euclidean_distance(ret.query, nodes[ret.list[i][1] + 1].vector)
             /\ \A n \in 1..Len(nodes) :
                    (nodes[n].id \notin {ret.list[j][1] : j \in 1..Len(ret.list)})
                    => euclidean_distance(ret.query, nodes[n].vector) >= ret.list[i][2]

\* C8: two of three nodes are returned, the graph has an upper layer and the
\* node left out is strictly farther than both returned.
C8_Witness ==
    /\ ret.kind = "search"
    /\ Len(nodes) = 3
    /\ m = 2 /\ m0 = 2 /\ ef_construction = 3
    /\ nodes[entry_point + 1].layer_max = 1
    /\ ret.k = 2
    /\ Len(ret.list) = 2
    /\ \E n \in 1..Len(nodes) :
          euclidean_distance(ret.query, nodes[n].vector) > ret.list[2][2]

\* C9: a search on an empty index returns the empty list and does not fail:
\* HNSW::search on a builder without inserts, and search_two_stage on a loaded
\* index whose header has num_elements = 0, for every query, k and ef_search;
\* the latter without reading any node, vector or connection.
C9_EmptyIndexSearch ==
    /\ (ret.kind = "search" /\ calls = 0) => (ret.ok /\ ret.list = <<>>)
    /\ (ret.kind = "search_two_stage" /\ file.header.num_elements = 0)
       => (ret.ok /\ ret.list = <<>> /\ ret.reads = {})

\* A loaded index without elements, whose header names entry point 1 at
\* layer 1, has been searched on a CPU without AVX2 and returned the empty
\* list.
C9_Witness ==
    /\ ret.kind = "search_two_stage"
    /\ loaded = "Ok"
    /\ file.header.num_elements = 0
    /\ file.header.entry_point_id = 1
    /\ file.header.max_layer = 1
    /\ ~ret.avx2
    /\ ret.ok
    /\ ret.list = <<>>

\* C10: when one byte at a position >= 256 of a file saved from a non-empty
\* builder was changed to a different value, load returns ChecksumMismatch:
\* not success and not another error kind.
C10_CrcDetection ==
    (file # NoFile /\ file.kind = "corrupted" /\ file.header.num_elements > 0
        /\ loaded # "none")
    => loaded = "ChecksumMismatch"

\* A byte of the vector arena of a saved two-node file was changed and load
\* has answered ChecksumMismatch.
C10_Witness ==
    /\ file # NoFile
    /\ file.kind = "corrupted"
    /\ file.header.num_elements = 2
    /\ file.changed >= file.header.vectors_offset
    /\ file.changed < file.header.connections_offset
    /\ loaded = "ChecksumMismatch"

\* A call of load on a file with a whole header has returned.
LoadDone == file # NoFile /\ loaded # "none" /\ ~TooShort(file)

\* C11: a file of at least 256 bytes with the right magic whose vectors_offset
\* is at or past the length of the file makes load return FileTooSmall,
\* whatever its checksum field and its payload are.
C11_OffsetValidation ==
    (/\ LoadDone
     /\ ~BadMagic(file)
     /\ file.header.vectors_offset >= FileLen(file))
    => loaded = "FileTooSmall"

\* C11: load has answered for a file whose vectors_offset alone is past the
\* end and whose checksum field is not the checksum of its payload.
C11_Witness ==
    /\ LoadDone
    /\ file.kind = "crafted"
    /\ ~BadMagic(file)
    /\ file.header.nodes_offset < FileLen(file)
    /\ file.header.connections_offset < FileLen(file)
    /\ file.header.vectors_offset >= FileLen(file)
    /\ file.payload # <<>>
    /\ file.header.checksum # crc32(file.payload)
    /\ loaded = "FileTooSmall"

\* The regions a header declares follow each other without overlap: the node
\* table after the header, the vectors after the node table, the connections
\* after the vectors.
RegionsOrdered(h) ==
    /\ HeaderSize <= h.nodes_offset
    /\ h.nodes_offset + h.num_elements * OnDiskNodeSize <= h.vectors_offset
    /\ h.vectors_offset + h.num_elements * h.dimension * 4 <= h.connections_offset

\* C12: a file of at least 256 bytes with the right magic, whose offsets all
\* lie inside the file but whose regions overlap or are out of order, is
\* rejected with OffsetInconsistent; here for the files no other check of
\* load rejects, whose checksum is compared and right.
C12_RegionOrdering ==
    (/\ LoadDone
     /\ ~BadMagic(file)
     /\ ~OffsetsPastEnd(file)
     /\ ChecksumCompared(file)
     /\ ~BadChecksum(file)
     /\ ~RegionsOrdered(file.header))
    => loaded = "OffsetInconsistent"

\* C19: load returns an index only after all its stages have run in the order
\* map, length, magic, offsets, checksum, advise, prefault; an error is the
\* one of the first check that fails, and no stage runs after a failure.
C19_LoaderStaging ==
    /\ loaded = "none" => stages = Take(LoadOrder, Len(stages))
    /\ loaded = "Ok" => stages = LoadOrder
    /\ loaded \notin {"none", "Ok"} =>
           /\ loaded = IF file = NoFile THEN "Io" ELSE load(file)
           /\ stages = StagesOf(file, loaded)
           /\ "advise" \notin Range(stages)
           /\ "prefault" \notin Range(stages)

\* The file is the one save wrote for the builder as it is now.
Saved == file # NoFile /\ file.kind = "saved"

\* C13: load of the file save wrote for a builder with at least one node
\* succeeds, and the header read back reports the number of nodes, the
\* dimension, the entry point, its layer_max, M, M0 and ef_construction of the
\* builder, the magic, offsets inside the file and the CRC of the payload.
C13_HeaderRoundTrip ==
    (Saved /\ Len(nodes) >= 1) =>
        /\ loaded # "none" => loaded = "Ok"
        /\ ret.kind = "header" =>
              /\ ret.header.magic = "HNSWANN1"
              /\ ret.header.num_elements = Len(nodes)
              /\ ret.header.dimension = Len(nodes[1].vector)
              /\ ret.header.entry_point_id = entry_point
              /\ ret.header.max_layer = nodes[entry_point + 1].layer_max
              /\ ret.header.m = m
              /\ ret.header.m0 = m0
              /\ ret.header.ef_construction = ef_construction
              /\ ret.header.nodes_offset < FileLen(file)
              /\ ret.header.vectors_offset < FileLen(file)
              /\ ret.header.connections_offset < FileLen(file)
              /\ ret.header.checksum = crc32(file.payload)

\* C13: the header of a loaded file was read whose entry point is the second
\* node, at layer 1.
C13_Witness ==
    /\ Saved
    /\ loaded = "Ok"
    /\ ret.kind = "header"
    /\ Len(nodes) = 2
    /\ entry_point = 1
    /\ ret.header.max_layer = 1

\* The words of the connection arena the blocks of node n (a position) take.
BlockWords(n) ==
    LET start == OnDiskNodeAt(file, n - 1).connections_offset \div 4
    IN start..(start + Len(ConnectionWords(nodes[n], 0)) - 1)

C15_Alignment ==
    (Saved /\ Len(nodes) >= 1) =>
        /\ "quantized_vectors_offset" \in DOMAIN file.header
        /\ file.header.quantized_vectors_offset % 32 = 0
        /\ file.header.vectors_offset % 32 = 0
        /\ file.header.connections_offset =
              file.header.vectors_offset
              + file.header.num_elements * file.header.dimension * 4

\* C16: the full-precision vector read from a loaded file of save for an
\* ID of the builder is the L2-normalized form of the vector inserted with
\* that ID.
C16_ArenaCoherence ==
    (Saved /\ ret.kind = "get_full_vector" /\ ret.id < Len(nodes)) =>
        /\ ret.ok
        /\ ret.vector = l2_normalize(nodes[ret.id + 1].vector)

C18_VisitedOverflow ==
    (ret.kind = "search_two_stage" /\ file.header.num_elements > 0) =>
        /\ ret.overflow => ret.ok
        /\ ret.marked = {}

\* The full-precision distance of the query of the last call to a node.
ExactDistance(id) == RerankDistance(ret.query, get_full_vector(file, id))

\* C20: search_two_stage on a non-empty index returns; its coarse candidates
\* are those of the layer-0 beam search of width max(ef_search, k); it returns
\* min(k, c) pairs for c candidates, of distinct IDs among the candidates, each
\* with its full-precision L2 distance to the query; and no candidate left
\* out is strictly closer than a returned one.
C20_Rerank ==
    (ret.kind = "search_two_stage" /\ file.header.num_elements > 0) =>
        Let(search_graph_u8(file, quantize_query(ret.query),
                            Max(ret.ef_search, ret.k), FreshThread),
            LAMBDA beam :
            LET coarse == {ret.coarse[i].node_id : i \in 1..Len(ret.coarse)}
                returned == {ret.list[i][1] : i \in 1..Len(ret.list)}
            IN /\ ret.ok
               /\ ret.coarse = beam.w
               /\ Len(ret.coarse) <= Max(ret.ef_search, ret.k)
               /\ Len(ret.list) = Min(ret.k, Len(ret.coarse))
               /\ returned \subseteq coarse
               /\ Cardinality(returned) = Len(ret.list)
               /\ \A i \in 1..Len(ret.list) :
                     ret.list[i][2] = ExactDistance(ret.list[i][1])
               /\ \A out \in coarse \ returned, r \in returned :
                     ExactDistance(out) >= ExactDistance(r))

\* The zoom for the query, ended at layer `level` on the node `zoomed`, has
\* reached a local minimum: the node is no farther from the query than the
\* entry point the zoom started from, and no neighbour of the node at that
\* layer is strictly closer to the query.
LocalMinimum(query, zoomed, level) ==
    LET dist(id) == euclidean_distance(query, nodes[id + 1].vector) IN
    /\ HasLayer(nodes, zoomed, level)
    /\ dist(zoomed) <= dist(entry_point)
    /\ \A i \in 1..Len(Conn(zoomed + 1, level)) :
          dist(Conn(zoomed + 1, level)[i]) >= dist(zoomed)

\* C21: the node the greedy zoom of search and of insert carries down from
\* layer 1 (the one zoom layer of a builder of two layers) is no farther from
\* the query than the entry point, and none of its layer-1 neighbours is
\* strictly closer to the query.
C21_GreedyZoom ==
    /\ (ret.kind = "search" /\ ret.ok /\ entry_point # NoneId
            /\ nodes[entry_point + 1].layer_max = 1)
       => LocalMinimum(ret.query, ret.zoomed, 1)
    /\ (ret.kind = "insert" /\ "zoomed" \in DOMAIN ret /\ ret.id > 0
            /\ ret.layer_max = 0 /\ nodes[entry_point + 1].layer_max = 1)
       => LocalMinimum(ret.query, ret.zoomed, 1)

\* In an (id, distance) list, of two entries at the same distance the one with
\* the lower ID comes first.
LowerIdFirst(list) ==
    \A i, j \in 1..Len(list) :
        (i < j /\ list[i][2] = list[j][2]) => list[i][1] < list[j][1]

\* C22: candidates at equal distance come in the order of their IDs, the
\* lower first: in the list the beam search of insert returns, from whose
\* head the neighbours are chosen, and in the list search returns.
C22_TieBreaking ==
    /\ pc = "push" => LowerIdFirst(ins.candidates)
    /\ (ret.kind = "search" /\ ret.ok) => LowerIdFirst(ret.list)

\* C23: the prune of the neighbour n at layer l with cap c that insert is
\* about to run does not fail; it leaves the graph as it is when the list has
\* at most c entries; otherwise the new list has exactly c entries, all from
\* the old list, every kept neighbour is no farther from n's vector than
\* every dropped one, and no other list and no other node is changed.
C23_PruneKeepsClosest ==
    pc = "prune" =>
        LET n == Head(ins.pending) + 1
            l == ins.level
            cap == MLevel(l)
            old == Conn(n, l)
            pruned == prune_connections(nodes, n - 1, l, cap)
            new == pruned.nodes[n].connections[l + 1]
            dist(id) == euclidean_distance(nodes[n].vector, nodes[id + 1].vector)
        IN /\ pruned.ok
           /\ Len(old) <= cap => pruned.nodes = nodes
           /\ Len(old) > cap =>
                 /\ Len(new) = cap
                 /\ Range(new) \subseteq Range(old)
                 /\ \A kept \in Range(new), dropped \in Range(old) \ Range(new) :
                       dist(kept) <= dist(dropped)
                 /\ pruned.nodes = [nodes EXCEPT ![n].connections[l + 1] = new]

\* C24: a step of insert changes no stored node but in its lists, and a list
\* of a stored node only at the layer being linked, which is at most
\* min(l_new, l_top), only for a node selected as neighbour at that layer, and
\* only by appending the new ID or, when the list is over its cap, by pruning
\* it.  The node an insert stores into a non-empty graph has between 1 and M_l
\* neighbours at the layers 0..min(l_new, l_top) and none above l_top; the
\* first node is stored without any edge.
C24_LayersTouched ==
    [][/\ Len(nodes') >= Len(nodes)
       /\ \A n \in 1..Len(nodes) :
             /\ nodes'[n].id = nodes[n].id
             /\ nodes'[n].vector = nodes[n].vector
             /\ nodes'[n].layer_max = nodes[n].layer_max
             /\ Len(nodes'[n].connections) = Len(nodes[n].connections)
             /\ \A l \in NodeLayers(n) :
                   nodes'[n].connections[l + 1] # Conn(n, l) =>
                       /\ pc \in {"push", "prune"}
                       /\ n = Head(ins.pending) + 1
                       /\ l = ins.level
                       /\ l <= Min(ins.layer_max, ins.max_layer_global)
                       /\ n - 1 \in Range(ins.connections[l + 1])
                       /\ pc = "push" =>
                             nodes'[n].connections[l + 1] = Append(Conn(n, l), ins.id)
                       /\ pc = "prune" =>
                             /\ Len(Conn(n, l)) > (IF l = 0 THEN m0 ELSE m)
                             /\ Range(nodes'[n].connections[l + 1])
                                    \subseteq Range(Conn(n, l))
       /\ Len(nodes') > Len(nodes) =>
             LET new == nodes'[Len(nodes')] IN
             /\ Len(nodes') = Len(nodes) + 1
             /\ Len(new.connections) = new.layer_max + 1
             /\ \A l \in 0..new.layer_max :
                   LET list == new.connections[l + 1] IN
                   IF nodes = <<>> THEN list = <<>>
                   ELSE LET l_top == nodes[entry_point + 1].layer_max IN
                        IF l <= l_top
                        THEN /\ Len(list) >= 1
                             /\ Len(list) <= (IF l = 0 THEN m0 ELSE m)
                        ELSE list = <<>>
      ]_vars

\* C24: a node of level 1 was stored into a graph of two nodes of level 0:
\* it has two neighbours at layer 0, which both list it last, and none at
\* layer 1.
C24_Witness ==
    /\ pc = "idle"
    /\ ret.kind = "insert"
    /\ Len(nodes) = 3
    /\ nodes[1].layer_max = 0
    /\ nodes[2].layer_max = 0
    /\ nodes[3].layer_max = 1
    /\ Len(nodes[3].connections[1]) = 2
    /\ nodes[3].connections[2] = <<>>
    /\ Last(Conn(1, 0)) = 2
    /\ Last(Conn(2, 0)) = 2

\* C25: a search_two_stage call on a CPU without avx2 invokes no kernel
\* compiled for avx2, neither in the coarse traversal nor in the rerank.
C25_KernelDispatch ==
    (ret.kind = "search_two_stage" /\ ~ret.avx2) =>
        ret.kernels \cap {"dot_product_u8_avx2", "euclidean_distance_avx2"} = {}

\* C26: when save has written a file for a builder without inserts (it
\* returned no error), load of that file succeeds.
C26_EmptyBuilder ==
    (Saved /\ nodes = <<>> /\ loaded # "none") => loaded = "Ok"

\* C27: between completed insert calls every ID stored in a list of layer l
\* names a stored node whose layer_max is at least l, every node has exactly
\* layer_max + 1 lists, and every layer_max is in 0 .. layers - 1.
C27_NeighbourValidity ==
    pc = "idle" =>
        \A n \in 1..Len(nodes) :
            /\ nodes[n].layer_max \in 0..(layers - 1)
            /\ Len(nodes[n].connections) = nodes[n].layer_max + 1
            /\ \A l \in 0..(Len(nodes[n].connections) - 1) :
                   \A neighbor_id \in Range(nodes[n].connections[l + 1]) :
                       /\ neighbor_id < Len(nodes)
                       /\ nodes[neighbor_id + 1].layer_max >= l

\* C27: three inserts have completed and a node has a neighbour at layer 1.
C27_Witness ==
    /\ pc = "idle"
    /\ Len(nodes) = 3
    /\ \E n \in 1..Len(nodes) :
           /\ nodes[n].layer_max >= 1
           /\ nodes[n].connections[2] # <<>>

\* C28: after any sequence of insert calls, when a stored node b lists a at
\* layer l, either a lists b at layer l or the list of a at layer l is full:
\* it holds M0 IDs at layer 0 and M IDs at a layer above.
C28_AsymmetryOnlyFromPruning ==
    AtRest =>
        \A b \in 1..Len(nodes) : \A l \in NodeLayers(b) :
            \A a \in Range(Conn(b, l)) :
                /\ HasLayer(nodes, a, l)
                /\ \/ nodes[b].id \in Range(Conn(a + 1, l))
                   \/ Len(Conn(a + 1, l)) = MLevel(l)

\* No ID stands twice in the list.
AtMostOnce(list) == Cardinality(Range(list)) = Len(list)

C30_AccessorsInsideFile ==
    (loaded = "Ok" /\ file # NoFile) =>
        LET header == file.header
            count == header.num_elements
            dim == header.dimension
        IN /\ header.nodes_offset + count * OnDiskNodeSize <= FileLen(file)
           /\ header.vectors_offset + count * dim * 4 <= FileLen(file)
           /\ header.connections_offset <= FileLen(file)
           /\ "quantized_vectors_offset" \in DOMAIN header =>
                  header.quantized_vectors_offset + count * dim <= FileLen(file)

====
